---- MODULE Spec2Model ----
(***************************************************************************)
(* Model of DeployCmd.deployProject (src/lib/actions-oclif/deploy.ts):     *)
(* one deploy run as a chain of promise callbacks.  Every .then/.catch     *)
(* callback is one action; every external call (loadProject, image         *)
(* inspect, buildProject, sdk metadata fetches, deployLegacy,              *)
(* $deployProject, release.get) settles in a separate action with an       *)
(* outcome chosen by the environment.                                      *)
(***************************************************************************)
EXTENDS Integers, Sequences, FiniteSets, TLC

\* Largest number of services of a loaded project.
MaxServices == 2

\* Service names are taken, in order, from this pool.
NamePool == <<"main", "db", "web", "cache">>

\* JavaScript's undefined, where it is stored in a string-valued field.
Undefined == "<undefined>"

\* d.image is either a plain reference string or a build spec carrying a tag
\* (the tag may be missing).
ImageSpecs ==
    { [kind |-> "string", ref |-> "img"],
      [kind |-> "build",  ref |-> "tag"],
      [kind |-> "build",  ref |-> Undefined] }

\* opts.app.application_type[0]; absent when the application carries no type.
NoAppType == [present |-> FALSE, supports_multicontainer |-> FALSE, is_legacy |-> FALSE]

AppTypes ==
    {NoAppType} \cup
    { [present |-> TRUE, supports_multicontainer |-> m, is_legacy |-> l] :
        m \in BOOLEAN, l \in BOOLEAN }

\* params.image: absent, the empty string, or an image reference.
Images == {Undefined, "", "img"}

\* Values the remote API may hand back.
ReleaseIds == {101, 102}
Commits == {"abc123", "def456"}

\* Errors a run can reject with.
ErrNone == "none"
ErrBuildWithImage == "Build option is not applicable when specifying an image"
ErrSecrets == "registry secrets / project directory validation failed"
ErrApp == "getAppWithArch failed"
ErrDocker == "docker client setup failed"
ErrLoad == "loadProject failed"
ErrNoMulticontainer == "Target application does not support multiple containers. Aborting!"
ErrProbe == "image inspect failed"
ErrBuild == "buildProject failed"
ErrMeta == "metadata fetch failed"
ErrRelease == "release request failed"
ErrLookup == "release lookup failed"

SkipLogs == "Build skipped; image for service already exists."
MsgUpToDate == "Everything is up to date (use --build to force a rebuild)"
MsgLegacy == "Target application requires legacy deploy method."
MsgSucceeded == "Deploy succeeded!"
MsgFailed == "Deploy failed"
MsgFlush == "<outputDeferredMessages>"

\* The projects loadProject can return: 1..MaxServices descriptors with
\* distinct service names, and a composition keyed by exactly those names.
Descriptors(n, imgs) ==
    [i \in 1..n |-> [serviceName |-> NamePool[i], image |-> imgs[i]]]

CompositionOf(ds) ==
    [s \in {ds[i].serviceName : i \in 1..Len(ds)} |->
        ds[CHOOSE i \in 1..Len(ds) : ds[i].serviceName = s].image]

Projects ==
    { [descriptors |-> Descriptors(n, imgs),
       composition |-> CompositionOf(Descriptors(n, imgs))] :
        n \in 1..MaxServices, imgs \in [1..MaxServices -> ImageSpecs] }

\* if (image): a non-empty image argument
ImageGiven(img) == img \notin {Undefined, ""}

\* With an image argument the project is the single service of that image.
ProjectsFor(img) ==
    IF ImageGiven(img)
    THEN {p \in Projects :
            /\ Len(p.descriptors) = 1
            /\ p.descriptors[1].image = [kind |-> "string", ref |-> img]}
    ELSE Projects

NoProject == [descriptors |-> <<>>, composition |-> <<>>]

NoRelease == [id |-> 0, commit |-> Undefined]

NoReleaseArg == [kind |-> "none", composition |-> <<>>, images |-> <<>>]

VARIABLES
    pc,               \* position of run() and of deployProject's promise chain
    image,            \* params.image of the deploy command
    runCalls,         \* calls run() has issued, in order
    lastSettled,      \* index of the image probe that settled last (0: none)
    ipc,              \* position of the plugin install action
    pluginName,       \* params.name of the plugin install action
    npmCalls,         \* npm calls the install action has issued, in order
    npmError,         \* error npm called back with, as raised
    doneCalls,        \* number of times done was called
    doneArg,          \* error done was called with
    appType,          \* opts.app.application_type[0]
    shouldPerformBuild, \* options.build, passed on as opts.shouldPerformBuild
    project,          \* value loadProject resolved with
    probeOutcome,     \* per descriptor: outcome of docker.getImage(..).inspect()
    mapResult,        \* per descriptor: value the Bluebird.map mapper resolved with
    probesIssued,     \* number of inspect() calls issued
    compositionToBuild, \* services of the pruned clone
    buildCalls,       \* number of compose.buildProject calls
    buildArg,         \* services of the composition passed to buildProject
    buildState,       \* the promise returned by compose.buildProject
    builtImages,      \* _.keyBy(builtImages, 'serviceName') or {}
    images,           \* reconciled image records
    metaState,        \* the three metadata fetches of the router
    metaCalls,        \* number of metadata fetches issued
    deployLegacyCalls, \* number of deployLegacy calls
    deployProjectCalls, \* number of $deployProject calls
    releaseArg,       \* what the release request was given
    releaseId,        \* id deployLegacy resolved with
    lookupCalls,      \* number of sdk.models.release.get calls
    lookupArg,        \* id passed to sdk.models.release.get
    release,          \* value the router's promise resolved with
    reportedCommit,   \* commit printed in the "Release: ..." line
    err,              \* error the chain is rejected with
    rejectedWith,     \* error the promise returned by deployProject rejects with
    logged            \* logger calls, in order

vars == <<pc, image, runCalls, lastSettled, ipc, pluginName, npmCalls,
          npmError, doneCalls, doneArg, appType, shouldPerformBuild, project, probeOutcome, mapResult,
          probesIssued, compositionToBuild, buildCalls, buildArg, buildState,
          builtImages, images, metaState, metaCalls, deployLegacyCalls, deployProjectCalls,
          releaseArg, releaseId, lookupCalls, lookupArg, release,
          reportedCommit, err, rejectedWith, logged>>

N == Len(project.descriptors)
Idx == 1..N
ServiceNamesOf(p) == {p.descriptors[i].serviceName : i \in 1..Len(p.descriptors)}

MetaKeys == {"token", "user", "url"}

\* No error: the first argument of a node callback on success.
Null == "<null>"
NoError == [code |-> Null, message |-> Null]

\* params.name of `plugin install <name>`.
PluginNames == {"hello", "sync", "dev", "ui"}

\* Errors npm can call back with: with or without a code.
NpmErrors ==
    [code : {"E404", "ENOTFOUND", "EACCES", Undefined},
     message : {"404 Not Found", "getaddrinfo failed", "permission denied"}]

InstallVars == <<ipc, pluginName, npmCalls, npmError, doneCalls, doneArg>>

\* State of a deploy run before any of its calls.
DeployStateInit ==
    /\ runCalls = <<>>
    /\ lastSettled = 0
    /\ project = NoProject
    /\ probeOutcome = <<>>
    /\ mapResult = <<>>
    /\ probesIssued = 0
    /\ compositionToBuild = <<>>
    /\ buildCalls = 0
    /\ buildArg = <<>>
    /\ buildState = "none"
    /\ builtImages = <<>>
    /\ images = <<>>
    /\ metaState = [k \in MetaKeys |-> "idle"]
    /\ metaCalls = 0
    /\ deployLegacyCalls = 0
    /\ deployProjectCalls = 0
    /\ releaseArg = NoReleaseArg
    /\ releaseId = 0
    /\ lookupCalls = 0
    /\ lookupArg = 0
    /\ release = NoRelease
    /\ reportedCommit = Undefined
    /\ err = ErrNone
    /\ rejectedWith = ErrNone
    /\ logged = <<>>

\* State of the plugin install action before any of its calls.
InstallStateInit ==
    /\ npmCalls = <<>>
    /\ npmError = NoError
    /\ doneCalls = 0
    /\ doneArg = NoError

\* A deploy command is run; no plugin command is.
Init ==
    /\ pc = "run"
    /\ image \in Images
    /\ appType \in AppTypes
    /\ shouldPerformBuild \in BOOLEAN
    /\ DeployStateInit
    /\ ipc = "idle"
    /\ pluginName = Undefined
    /\ InstallStateInit

\* A plugin install command is run; no deploy command is.
InitInstall ==
    /\ pc = "idle"
    /\ image = Undefined
    /\ appType = NoAppType
    /\ shouldPerformBuild = FALSE
    /\ DeployStateInit
    /\ ipc = "start"
    /\ pluginName \in PluginNames
    /\ InstallStateInit

(***************************************************************************)
(* Pure helpers                                                            *)
(***************************************************************************)

\* appType?.supports_multicontainer and appType?.is_legacy
SupportsMulticontainer(at) == at.present /\ at.supports_multicontainer
IsLegacy(at) == at.present /\ at.is_legacy

CapabilityGateFails_OffByOne(p, at) ==
    Len(p.descriptors) > 2 /\ ~SupportsMulticontainer(at)

\* project.descriptors.length > 1 && !appType?.supports_multicontainer
CapabilityGateFails(p, at) ==
    Len(p.descriptors) > 1 /\ ~SupportsMulticontainer(at)

\* (typeof d.image === 'string' ? d.image : d.image.tag) || ''
ProbeRef(d) == IF d.image.ref = Undefined THEN "" ELSE d.image.ref

\* What inspect() can answer for a reference; the empty reference names no image.
InspectOutcomes(ref) ==
    IF ref = "" THEN {"notFound", "error"} ELSE {"exists", "notFound", "error"}

PendingResult == [t |-> "pending", v |-> Undefined]
UndefResult == [t |-> "undef", v |-> Undefined]

MapperForced_ServiceName(d) == [t |-> "name", v |-> d.serviceName]

\* if (opts.shouldPerformBuild) { return d; }  -- the descriptor object itself
MapperForced(d) == [t |-> "desc", v |-> d.serviceName]

ProbeMapperResult_NoCatch(d, outcome) ==
    CASE outcome = "exists" -> [t |-> "name", v |-> d.serviceName]
      [] outcome = "error" -> [t |-> "reject", v |-> Undefined]
      [] OTHER -> UndefResult

ProbeMapperResult_CatchReturnsName(d, outcome) ==
    IF outcome \in {"exists", "error"}
    THEN [t |-> "name", v |-> d.serviceName]
    ELSE UndefResult

ProbeMapperResult_Inverted(d, outcome) ==
    IF outcome = "exists"
    THEN UndefResult
    ELSE [t |-> "name", v |-> d.serviceName]

\* .inspect().then(() => d.serviceName).catch(() => {})
\* inspect() rejects both for a missing image and for a runtime error.
ProbeMapperResult(d, outcome) ==
    IF outcome = "exists"
    THEN [t |-> "name", v |-> d.serviceName]
    ELSE UndefResult

\* .filter((d) => !!d)
Truthy(r) == r.t = "desc" \/ (r.t = "name" /\ r.v # "")
ServicesToSkip(results) == SelectSeq(results, Truthy)

\* The property name _.omit derives from one path: a service name is a key
\* of the object; any other object is stringified to "[object Object]",
\* which lodash parses as the path ["object Object"].
OmitKey(r) == IF r.t = "name" THEN r.v ELSE "object Object"

\* _.omit(compositionToBuild.services, servicesToSkip)
Omit(services, paths) ==
    [s \in (DOMAIN services) \ {OmitKey(paths[i]) : i \in 1..Len(paths)} |->
        services[s]]

NothingToBuild_Never(services) == Cardinality(DOMAIN services) < 0

\* _.size(compositionToBuild.services) === 0
NothingToBuild(services) == Cardinality(DOMAIN services) = 0

\* A record of the build dispatcher for one service.
BuiltRecord(name) ==
    [serviceName |-> name, name |-> "built:" \o name, logs |-> "build log",
     props |-> "built"]

\* The synthesized record of the reconcile step.
SkipRecord(d) ==
    [serviceName |-> d.serviceName, name |-> d.image.ref, logs |-> SkipLogs,
     props |-> "{}"]

ReconcileOne(built, d) ==
    IF d.serviceName \in DOMAIN built THEN built[d.serviceName] ELSE SkipRecord(d)

Reconciled_BuiltOnly(ds, built) ==
    LET kept == SelectSeq(ds, LAMBDA d : d.serviceName \in DOMAIN built)
    IN [i \in 1..Len(kept) |-> built[kept[i].serviceName]]

\* project.descriptors.map((d) => builtImages[d.serviceName] ?? {...})
Reconciled(ds, built) == [i \in 1..Len(ds) |-> ReconcileOne(built, ds[i])]

\* `Release: ${release.commit}`
ReportedCommit(r) == r.commit

(***************************************************************************)
(* Actions                                                                 *)
(***************************************************************************)

AllCalls == <<probesIssued, buildCalls, metaCalls, deployLegacyCalls,
              deployProjectCalls, lookupCalls>>
ProbeVars == <<probeOutcome, mapResult, probesIssued, lastSettled>>
BuildVars == <<compositionToBuild, buildCalls, buildArg, buildState, builtImages>>
RouteVars == <<metaState, metaCalls, deployLegacyCalls, deployProjectCalls,
               releaseArg, releaseId, lookupCalls, lookupArg, release>>
ReportVars == <<reportedCommit, rejectedWith>>
RunVars == <<image, runCalls>>
InputVars == <<appType, shouldPerformBuild, RunVars, InstallVars>>

ValidationFails_Truthy(img, build) == ImageGiven(img) /\ build

\* image != null && options.build
ValidationFails(img, build) == img # Undefined /\ build

DeployVars == <<project, ProbeVars, BuildVars, images, RouteVars, ReportVars,
                logged>>

\* run(): parse, validate the image/--build combination, then ask for the
\* registry secrets (image given) or validate the project directory.
RunValidate ==
    /\ pc = "run"
    /\ IF ValidationFails(image, shouldPerformBuild)
       THEN /\ pc' = "runRejected"
            /\ err' = ErrBuildWithImage
            /\ UNCHANGED runCalls
       ELSE /\ pc' = "secrets"
            /\ runCalls' = Append(runCalls,
                    IF ImageGiven(image) THEN "getRegistrySecrets"
                                         ELSE "validateProjectDirectory")
            /\ UNCHANGED err
    /\ UNCHANGED <<image, appType, shouldPerformBuild, InstallVars, DeployVars>>

\* getRegistrySecrets / validateProjectDirectory resolves; getAppWithArch
\* is called.
SecretsResolve ==
    /\ pc = "secrets"
    /\ runCalls' = Append(runCalls, "getAppWithArch")
    /\ pc' = "app"
    /\ UNCHANGED <<image, appType, shouldPerformBuild, InstallVars, DeployVars, err>>

\* getAppWithArch resolves; the docker client and the build and compose
\* options are requested (Promise.all).
AppResolve ==
    /\ pc = "app"
    /\ runCalls' = Append(runCalls, "getDocker")
    /\ pc' = "docker"
    /\ UNCHANGED <<image, appType, shouldPerformBuild, InstallVars, DeployVars, err>>

\* Promise.all resolves; deployProject is called and calls loadProject.
DockerResolve ==
    /\ pc = "docker"
    /\ runCalls' = Append(runCalls, "loadProject")
    /\ pc' = "load"
    /\ UNCHANGED <<image, appType, shouldPerformBuild, InstallVars, DeployVars, err>>

\* One of the awaited calls of run() rejects; run() rejects with its error.
RunReject ==
    /\ pc \in {"secrets", "app", "docker"}
    /\ err' = CASE pc = "secrets" -> ErrSecrets
                [] pc = "app" -> ErrApp
                [] pc = "docker" -> ErrDocker
    /\ pc' = "runRejected"
    /\ UNCHANGED <<InputVars, DeployVars>>

\* loadProject(...) rejects.
LoadProjectReject ==
    /\ pc = "load"
    /\ pc' = "rejected"
    /\ err' = ErrLoad
    /\ UNCHANGED <<InputVars, project, ProbeVars, BuildVars, images, RouteVars,
                   ReportVars, logged>>

\* loadProject(...) resolves with p: the capability gate, then Bluebird.map
\* starts the mapper for every descriptor.
LoadProjectResolve(p) ==
    /\ pc = "load"
    /\ p \in ProjectsFor(image)
    /\ project' = p
    /\ IF CapabilityGateFails(p, appType)
       THEN /\ pc' = "rejected"
            /\ err' = ErrNoMulticontainer
            /\ UNCHANGED ProbeVars
       ELSE /\ pc' = "map"
            /\ err' = err
            /\ UNCHANGED lastSettled
            /\ IF shouldPerformBuild
               THEN /\ mapResult' = [i \in 1..Len(p.descriptors) |->
                                        MapperForced(p.descriptors[i])]
                    /\ probeOutcome' = [i \in 1..Len(p.descriptors) |-> "none"]
                    /\ probesIssued' = probesIssued
               ELSE /\ mapResult' = [i \in 1..Len(p.descriptors) |-> PendingResult]
                    /\ probeOutcome' = [i \in 1..Len(p.descriptors) |-> "pending"]
                    /\ probesIssued' = probesIssued + Len(p.descriptors)
    /\ UNCHANGED <<InputVars, BuildVars, images, RouteVars, ReportVars, logged>>

\* docker.getImage(ref).inspect() of descriptor i settles with outcome o.
ProbeSettle(i, o) ==
    /\ i \in DOMAIN probeOutcome
    /\ probeOutcome[i] = "pending"
    /\ o \in InspectOutcomes(ProbeRef(project.descriptors[i]))
    /\ probeOutcome' = [probeOutcome EXCEPT ![i] = o]
    /\ lastSettled' = i
    /\ LET r == ProbeMapperResult(project.descriptors[i], o)
       IN IF r.t = "reject"
          THEN /\ mapResult' = mapResult
               /\ IF pc = "map"
                  THEN pc' = "rejected" /\ err' = ErrProbe
                  ELSE UNCHANGED <<pc, err>>
          ELSE /\ mapResult' = [mapResult EXCEPT ![i] = r]
               /\ UNCHANGED <<pc, err>>
    /\ UNCHANGED <<InputVars, project, probesIssued, BuildVars, images,
                   RouteVars, ReportVars, logged>>

MapSettled_Any == \E i \in DOMAIN mapResult : mapResult[i].t # "pending"

\* Bluebird.map resolves once every mapper promise has resolved.
MapSettled == \A i \in DOMAIN mapResult : mapResult[i].t # "pending"

ProjectAfterPrune_NoClone(p, pruned) == [p EXCEPT !.composition = pruned]

\* const compositionToBuild = _.cloneDeep(project.composition): the services
\* are replaced on the clone, the project keeps its composition.
ProjectAfterPrune(p, pruned) == p

\* .filter(...).then(function (servicesToSkip) {...}): prune the cloned
\* composition and call compose.buildProject unless nothing is left.
PruneAndBuild ==
    /\ pc = "map"
    /\ MapSettled
    /\ LET pruned == Omit(project.composition, ServicesToSkip(mapResult))
       IN /\ compositionToBuild' = pruned
          /\ project' = ProjectAfterPrune(project, pruned)
          /\ IF NothingToBuild(pruned)
             THEN /\ logged' = Append(logged, MsgUpToDate)
                  /\ builtImages' = <<>>
                  /\ pc' = "reconcile"
                  /\ UNCHANGED <<buildCalls, buildArg, buildState>>
             ELSE /\ buildCalls' = buildCalls + 1
                  /\ buildArg' = pruned
                  /\ buildState' = "pending"
                  /\ pc' = "building"
                  /\ UNCHANGED <<builtImages, logged>>
    /\ UNCHANGED <<InputVars, ProbeVars, images, RouteVars,
                   ReportVars, err>>

\* compose.buildProject resolves with records for the services in built;
\* .then((builtImages) => _.keyBy(builtImages, 'serviceName'))
BuildResolve(built) ==
    /\ pc = "building"
    /\ built \subseteq DOMAIN buildArg
    /\ builtImages' = [s \in built |-> BuiltRecord(s)]
    /\ buildState' = "resolved"
    /\ pc' = "reconcile"
    /\ UNCHANGED <<InputVars, project, ProbeVars, compositionToBuild,
                   buildCalls, buildArg, images, RouteVars, ReportVars, err,
                   logged>>

BuildReject_Swallowed ==
    /\ pc = "building"
    /\ builtImages' = <<>>
    /\ buildState' = "rejected"
    /\ pc' = "reconcile"
    /\ UNCHANGED <<InputVars, project, ProbeVars, compositionToBuild,
                   buildCalls, buildArg, images, RouteVars, ReportVars, err,
                   logged>>

\* compose.buildProject rejects.
BuildReject ==
    /\ pc = "building"
    /\ buildState' = "rejected"
    /\ pc' = "rejected"
    /\ err' = ErrBuild
    /\ UNCHANGED <<InputVars, project, ProbeVars, compositionToBuild,
                   buildCalls, buildArg, builtImages, images, RouteVars,
                   ReportVars, logged>>

\* .then((builtImages) => project.descriptors.map(...))
Reconcile ==
    /\ pc = "reconcile"
    /\ images' = Reconciled(project.descriptors, builtImages)
    /\ pc' = "route"
    /\ UNCHANGED <<InputVars, project, ProbeVars, BuildVars, RouteVars,
                   ReportVars, err, logged>>

\* .then(function (images) {...}): pick the branch and issue its three
\* metadata fetches (Promise.all).
Route ==
    /\ pc = "route"
    /\ metaState' = [k \in MetaKeys |-> "pending"]
    /\ metaCalls' = metaCalls + 3
    /\ logged' = IF IsLegacy(appType) THEN Append(logged, MsgLegacy) ELSE logged
    /\ pc' = "meta"
    /\ UNCHANGED <<InputVars, project, ProbeVars, BuildVars, images,
                   deployLegacyCalls, deployProjectCalls, releaseArg,
                   releaseId, lookupCalls, lookupArg, release, ReportVars, err>>

\* One metadata fetch resolves.
MetaResolve(k) ==
    /\ metaState[k] = "pending"
    /\ metaState' = [metaState EXCEPT ![k] = "ok"]
    /\ UNCHANGED <<pc, InputVars, project, ProbeVars, BuildVars, images,
                   metaCalls, deployLegacyCalls, deployProjectCalls,
                   releaseArg, releaseId, lookupCalls, lookupArg, release,
                   ReportVars, err, logged>>

\* One metadata fetch rejects; Promise.all rejects with the first rejection.
MetaReject(k) ==
    /\ metaState[k] = "pending"
    /\ metaState' = [metaState EXCEPT ![k] = "failed"]
    /\ IF pc = "meta"
       THEN pc' = "rejected" /\ err' = ErrMeta
       ELSE UNCHANGED <<pc, err>>
    /\ UNCHANGED <<InputVars, project, ProbeVars, BuildVars, images,
                   metaCalls, deployLegacyCalls, deployProjectCalls,
                   releaseArg, releaseId, lookupCalls, lookupArg, release,
                   ReportVars, logged>>

MetaJoined_Any == \E k \in MetaKeys : metaState[k] = "ok"

\* Promise.all resolves once all three fetches have resolved.
MetaJoined == \A k \in MetaKeys : metaState[k] = "ok"

IssueRelease_BySupport ==
    /\ pc = "meta"
    /\ MetaJoined
    /\ IF ~SupportsMulticontainer(appType)
       THEN /\ deployLegacyCalls' = deployLegacyCalls + 1
            /\ releaseArg' = [kind |-> "legacy", composition |-> <<>>,
                              images |-> <<images[1]>>]
            /\ UNCHANGED deployProjectCalls
       ELSE /\ deployProjectCalls' = deployProjectCalls + 1
            /\ releaseArg' = [kind |-> "multi",
                              composition |-> project.composition,
                              images |-> images]
            /\ UNCHANGED deployLegacyCalls
    /\ pc' = "releasing"
    /\ UNCHANGED <<InputVars, project, ProbeVars, BuildVars, images,
                   metaState, metaCalls, releaseId, lookupCalls, lookupArg,
                   release, ReportVars, err, logged>>

\* Promise.all(...).then(...): all three fetches resolved; issue deployLegacy
\* for images[0], or $deployProject for project.composition and images.
IssueRelease ==
    /\ pc = "meta"
    /\ MetaJoined
    /\ IF IsLegacy(appType)
       THEN /\ deployLegacyCalls' = deployLegacyCalls + 1
            /\ releaseArg' = [kind |-> "legacy", composition |-> <<>>,
                              images |-> <<images[1]>>]
            /\ UNCHANGED deployProjectCalls
       ELSE /\ deployProjectCalls' = deployProjectCalls + 1
            /\ releaseArg' = [kind |-> "multi",
                              composition |-> project.composition,
                              images |-> images]
            /\ UNCHANGED deployLegacyCalls
    /\ pc' = "releasing"
    /\ UNCHANGED <<InputVars, project, ProbeVars, BuildVars, images,
                   metaState, metaCalls, releaseId, lookupCalls, lookupArg,
                   release, ReportVars, err, logged>>

\* The release request rejects.
ReleaseReject ==
    /\ pc = "releasing"
    /\ pc' = "rejected"
    /\ err' = ErrRelease
    /\ UNCHANGED <<InputVars, project, ProbeVars, BuildVars, images, RouteVars,
                   ReportVars, logged>>

\* $deployProject resolves with a release carrying commit c.
DeployProjectResolve(id, c) ==
    /\ pc = "releasing"
    /\ releaseArg.kind = "multi"
    /\ release' = [id |-> id, commit |-> c]
    /\ pc' = "resolved"
    /\ UNCHANGED <<InputVars, project, ProbeVars, BuildVars, images,
                   metaState, metaCalls, deployLegacyCalls, deployProjectCalls,
                   releaseArg, releaseId, lookupCalls, lookupArg, ReportVars,
                   err, logged>>

DeployLegacyResolve_StaleId(id) ==
    /\ pc = "releasing"
    /\ releaseArg.kind = "legacy"
    /\ releaseId' = id
    /\ lookupCalls' = lookupCalls + 1
    /\ lookupArg' = releaseId
    /\ pc' = "lookup"
    /\ UNCHANGED <<InputVars, project, ProbeVars, BuildVars, images,
                   metaState, metaCalls, deployLegacyCalls, deployProjectCalls,
                   releaseArg, release, ReportVars, err, logged>>

\* deployLegacy resolves with a release id;
\* .then((releaseId) => sdk.models.release.get(releaseId, ...))
DeployLegacyResolve(id) ==
    /\ pc = "releasing"
    /\ releaseArg.kind = "legacy"
    /\ releaseId' = id
    /\ lookupCalls' = lookupCalls + 1
    /\ lookupArg' = id
    /\ pc' = "lookup"
    /\ UNCHANGED <<InputVars, project, ProbeVars, BuildVars, images,
                   metaState, metaCalls, deployLegacyCalls, deployProjectCalls,
                   releaseArg, release, ReportVars, err, logged>>

\* sdk.models.release.get resolves with the release of the requested id.
LookupResolve(c) ==
    /\ pc = "lookup"
    /\ release' = [id |-> lookupArg, commit |-> c]
    /\ pc' = "resolved"
    /\ UNCHANGED <<InputVars, project, ProbeVars, BuildVars, images,
                   metaState, metaCalls, deployLegacyCalls, deployProjectCalls,
                   releaseArg, releaseId, lookupCalls, lookupArg, ReportVars,
                   err, logged>>

\* sdk.models.release.get rejects.
LookupReject ==
    /\ pc = "lookup"
    /\ pc' = "rejected"
    /\ err' = ErrLookup
    /\ UNCHANGED <<InputVars, project, ProbeVars, BuildVars, images, RouteVars,
                   ReportVars, logged>>

\* .then(function (release) {...})
DeploySucceeded ==
    /\ pc = "resolved"
    /\ logged' = logged \o <<MsgFlush, MsgSucceeded, "Release">>
    /\ reportedCommit' = ReportedCommit(release)
    /\ pc' = "done"
    /\ UNCHANGED <<InputVars, project, ProbeVars, BuildVars, images, RouteVars,
                   rejectedWith, err>>

DeployFailed_Swallowed ==
    /\ pc = "rejected"
    /\ logged' = Append(logged, MsgFailed)
    /\ rejectedWith' = ErrNone
    /\ pc' = "failed"
    /\ UNCHANGED <<InputVars, project, ProbeVars, BuildVars, images, RouteVars,
                   reportedCommit, err>>

\* .catch((err) => { logger.logError('Deploy failed'); throw err; })
DeployFailed ==
    /\ pc = "rejected"
    /\ logged' = Append(logged, MsgFailed)
    /\ rejectedWith' = err
    /\ pc' = "failed"
    /\ UNCHANGED <<InputVars, project, ProbeVars, BuildVars, images, RouteVars,
                   reportedCommit, err>>

Next ==
    \/ RunValidate
    \/ SecretsResolve
    \/ AppResolve
    \/ DockerResolve
    \/ RunReject
    \/ LoadProjectReject
    \/ \E p \in Projects : LoadProjectResolve(p)
    \/ \E i \in 1..MaxServices, o \in {"exists", "notFound", "error"} : ProbeSettle(i, o)
    \/ PruneAndBuild
    \/ \E built \in SUBSET {NamePool[i] : i \in 1..MaxServices} : BuildResolve(built)
    \/ BuildReject
    \/ Reconcile
    \/ Route
    \/ \E k \in MetaKeys : MetaResolve(k)
    \/ \E k \in MetaKeys : MetaReject(k)
    \/ IssueRelease
    \/ ReleaseReject
    \/ \E id \in ReleaseIds, c \in Commits : DeployProjectResolve(id, c)
    \/ \E id \in ReleaseIds : DeployLegacyResolve(id)
    \/ \E c \in Commits : LookupResolve(c)
    \/ LookupReject
    \/ DeploySucceeded
    \/ DeployFailed

Spec == Init /\ [][Next]_vars

(***************************************************************************)
(* exports.install (src/unnamed/part_000): async.waterfall over npm.load   *)
(* and npm.commands.install, then the final callback.                      *)
(***************************************************************************)

\* "resin-plugin-#{params.name}"
PackageName(name) == "resin-plugin-" \o name

DoneArg_RewriteAll(error, name) ==
    IF error = NoError
    THEN NoError
    ELSE [error EXCEPT !.message = "Plugin not found: " \o name]

\* The final callback: done() without an error; otherwise the message of an
\* E404 error is rewritten and done(error) is called.
DoneArg(error, name) ==
    IF error = NoError
    THEN NoError
    ELSE IF error.code = "E404"
         THEN [error EXCEPT !.message = "Plugin not found: " \o name]
         ELSE error

DeployAll == <<pc, appType, shouldPerformBuild, RunVars, DeployVars, err>>

\* action: the waterfall starts its first task, npm.load({}, callback).
InstallStart ==
    /\ ipc = "start"
    /\ npmCalls' = Append(npmCalls, "load")
    /\ ipc' = "loading"
    /\ UNCHANGED <<pluginName, npmError, doneCalls, doneArg, DeployAll>>

\* npm.load calls back without error: the second task calls
\* npm.commands.install for the plugin's package.
NpmLoadResolve ==
    /\ ipc = "loading"
    /\ npmCalls' = Append(npmCalls, PackageName(pluginName))
    /\ ipc' = "installing"
    /\ UNCHANGED <<pluginName, npmError, doneCalls, doneArg, DeployAll>>

\* npm.load or npm.commands.install calls back with error e: the waterfall
\* skips the remaining tasks and runs the final callback.
NpmReject(e) ==
    /\ ipc \in {"loading", "installing"}
    /\ npmError' = e
    /\ doneArg' = DoneArg(e, pluginName)
    /\ doneCalls' = doneCalls + 1
    /\ ipc' = "done"
    /\ UNCHANGED <<pluginName, npmCalls, DeployAll>>

\* npm.commands.install calls back without error: the final callback runs
\* with no error.
NpmInstallResolve ==
    /\ ipc = "installing"
    /\ doneArg' = DoneArg(NoError, pluginName)
    /\ doneCalls' = doneCalls + 1
    /\ ipc' = "done"
    /\ UNCHANGED <<pluginName, npmCalls, npmError, DeployAll>>

NextInstall ==
    \/ InstallStart
    \/ NpmLoadResolve
    \/ \E e \in NpmErrors : NpmReject(e)
    \/ NpmInstallResolve

SpecInstall == InitInstall /\ [][NextInstall]_vars

(***************************************************************************)
(* Properties                                                              *)
(***************************************************************************)

Loaded == project # NoProject
Failing == pc \in {"rejected", "failed"}
NameAt(i) == project.descriptors[i].serviceName
NoReleaseRequest == deployLegacyCalls = 0 /\ deployProjectCalls = 0 /\ lookupCalls = 0

\* The pruning callback has run.
PruneDone ==
    \/ pc \in {"building", "reconcile", "route", "meta", "releasing", "lookup",
               "resolved", "done"}
    \/ Failing /\ err \in {ErrBuild, ErrMeta, ErrRelease, ErrLookup}

\* The reconcile callback has run.
ReconcileDone ==
    \/ pc \in {"route", "meta", "releasing", "lookup", "resolved", "done"}
    \/ Failing /\ err \in {ErrMeta, ErrRelease, ErrLookup}

\* C1: a loaded project with more than one descriptor whose application type
\* does not report supports_multicontainer is rejected with the "does not
\* support multiple containers" error, and no probe, build call, metadata
\* fetch or release request is issued in that run.
C1_CapabilityGate ==
    (Loaded /\ N > 1 /\ ~(appType.present /\ appType.supports_multicontainer))
        => /\ Failing
           /\ err = ErrNoMulticontainer
           /\ (pc = "failed" => rejectedWith = ErrNoMulticontainer)
           /\ probesIssued = 0
           /\ buildCalls = 0
           /\ metaCalls = 0
           /\ NoReleaseRequest

C1_Witness ==
    /\ pc = "failed"
    /\ rejectedWith = ErrNoMulticontainer
    /\ N = 2
    /\ appType = [present |-> TRUE, supports_multicontainer |-> FALSE,
                  is_legacy |-> FALSE]

\* C2: in the composition handed to the build dispatcher (and in the pruned
\* clone it is taken from) a declared service is absent if and only if its
\* probe succeeded and no forced rebuild was requested.
C2_PruningExact ==
    /\ PruneDone =>
          \A i \in Idx :
              (NameAt(i) \notin DOMAIN compositionToBuild)
                  <=> (probeOutcome[i] = "exists" /\ ~shouldPerformBuild)
    /\ buildCalls > 0 =>
          /\ DOMAIN buildArg \subseteq ServiceNamesOf(project)
          /\ \A i \in Idx :
                (NameAt(i) \notin DOMAIN buildArg)
                    <=> (probeOutcome[i] = "exists" /\ ~shouldPerformBuild)

C2_Witness ==
    /\ buildCalls = 1
    /\ N = 2
    /\ probeOutcome = <<"exists", "error">>
    /\ DOMAIN buildArg = {NameAt(2)}

\* C3: with shouldPerformBuild no image probe is ever issued, and the build
\* dispatcher is called once with all declared services.
C3_ForceRebuildBypass ==
    shouldPerformBuild =>
        /\ probesIssued = 0
        /\ PruneDone =>
              /\ buildCalls = 1
              /\ DOMAIN buildArg = ServiceNamesOf(project)
              /\ buildArg = project.composition

C3_Witness ==
    /\ shouldPerformBuild
    /\ N = 2
    /\ buildCalls = 1
    /\ pc = "done"

\* C4: once the reconcile step has run, the image records are one per
\* descriptor: the same set of service names, no duplicates, no omissions.
C4_Coverage ==
    ReconcileDone =>
        /\ Len(images) = N
        /\ {images[i].serviceName : i \in 1..Len(images)} = ServiceNamesOf(project)
        /\ \A i, j \in 1..Len(images) :
              images[i].serviceName = images[j].serviceName => i = j

C4_Witness ==
    /\ ReconcileDone
    /\ N = 2
    /\ images[1].logs = SkipLogs
    /\ images[2].logs # SkipLogs

AllSkip ==
    /\ Loaded
    /\ ~shouldPerformBuild
    /\ probeOutcome # <<>>
    /\ \A i \in DOMAIN probeOutcome : probeOutcome[i] = "exists"

\* C5: when no rebuild is forced and every probe succeeds, the build
\* dispatcher is never called, every reconciled record is a skip record, the
\* router runs on all of them, and the run can only fail in the release stage.
C5_AllSkip ==
    AllSkip =>
        /\ buildCalls = 0
        /\ pc \in {"map", "reconcile"} \/ ReconcileDone
        /\ ReconcileDone =>
              /\ Len(images) = N
              /\ \A i \in Idx : images[i] = SkipRecord(project.descriptors[i])
              /\ \A i \in Idx : images[i].logs = SkipLogs /\ images[i].props = "{}"
        /\ pc \in {"done", "failed"} => metaCalls = 3
        /\ releaseArg.kind = "multi" => releaseArg.images = images

C5_Witness ==
    /\ AllSkip
    /\ N = 2
    /\ pc = "done"
    /\ releaseArg.kind = "multi"
    /\ Len(releaseArg.images) = 2

\* A probe error read as a clean "not found".
Coerce(o) == IF o = "error" THEN "notFound" ELSE o

\* C6: a probe error never fails the deploy, its mapper result is that of a
\* clean "not found", and the pruned composition (and the build request) is
\* the one obtained when every error is replaced by "not found".
C6_ErrorCoercion ==
    /\ err # ErrProbe
    /\ \A i \in DOMAIN mapResult :
          /\ probeOutcome[i] \in {"notFound", "error"} => mapResult[i] = UndefResult
          /\ probeOutcome[i] = "exists" => mapResult[i].t = "name"
    /\ (PruneDone /\ ~shouldPerformBuild) =>
          /\ DOMAIN compositionToBuild =
                {NameAt(i) : i \in {j \in Idx : Coerce(probeOutcome[j]) = "notFound"}}
          /\ buildCalls > 0 => buildArg = compositionToBuild

C6_Witness ==
    /\ N = 2
    /\ probeOutcome = <<"error", "exists">>
    /\ DOMAIN buildArg = {NameAt(1)}
    /\ pc = "done"

\* C7: whenever deployLegacy is issued the reconciled sequence holds exactly
\* one record.
C7_LegacySingleRecord ==
    deployLegacyCalls > 0 => Len(images) = 1

\* C8: at most one release-creation request is issued in a run, and it is the
\* legacy one exactly when the application type is legacy.
C8_RouterExclusive ==
    /\ deployLegacyCalls + deployProjectCalls <= 1
    /\ deployLegacyCalls = 1 => (appType.present /\ appType.is_legacy)
    /\ deployProjectCalls = 1 => ~(appType.present /\ appType.is_legacy)
    /\ (deployLegacyCalls = 1) <=> (releaseArg.kind = "legacy")
    /\ (deployProjectCalls = 1) <=> (releaseArg.kind = "multi")

C8_Witness ==
    /\ deployLegacyCalls = 1
    /\ pc = "failed"
    /\ rejectedWith = ErrRelease

\* C9: a successful legacy deploy of a one-service project issues one
\* deployLegacy call, then one release lookup for the id it returned, and
\* reports the commit of the looked-up release.
C9_LegacyHappyPath ==
    /\ lookupCalls > 0 =>
          /\ deployLegacyCalls = 1
          /\ releaseId \in ReleaseIds
          /\ lookupArg = releaseId
    /\ (N = 1 /\ appType.present /\ appType.is_legacy /\ pc = "done") =>
          /\ deployLegacyCalls = 1
          /\ deployProjectCalls = 0
          /\ lookupCalls = 1
          /\ release.id = releaseId
          /\ reportedCommit = release.commit
          /\ reportedCommit \in Commits

C9_Witness ==
    /\ N = 1
    /\ appType.present /\ appType.is_legacy
    /\ pc = "done"
    /\ lookupArg = 101
    /\ reportedCommit = "abc123"

\* C10: when the build dispatcher call rejects, no metadata fetch and no
\* release request is issued, and the deploy rejects with the build error.
C10_BuildErrorFatal ==
    buildState = "rejected" =>
        /\ Failing
        /\ err = ErrBuild
        /\ (pc = "failed" => rejectedWith = ErrBuild)
        /\ metaCalls = 0
        /\ NoReleaseRequest

C10_Witness ==
    /\ buildState = "rejected"
    /\ pc = "failed"
    /\ rejectedWith = ErrBuild

\* C11: when a run has failed, outputDeferredMessages was called before
\* 'Deploy failed' was logged.
C11_FlushBeforeFailure ==
    pc = "failed" =>
        \E i, j \in 1..Len(logged) :
            i < j /\ logged[i] = MsgFlush /\ logged[j] = MsgFailed

\* A service was sent to the build dispatcher and no record came back for it.
MissingRecord ==
    /\ buildState = "resolved"
    /\ \E s \in DOMAIN buildArg : s \notin DOMAIN builtImages

\* C12: a descriptor that was sent to build and has no build record makes the
\* deploy fail before any release request; it never gets a skip record.
C12_MissingRecordFatal ==
    (MissingRecord /\ pc # "reconcile") =>
        /\ Failing
        /\ deployLegacyCalls = 0 /\ deployProjectCalls = 0
        /\ \A i \in 1..Len(images) :
              images[i].serviceName \in DOMAIN buildArg => images[i].logs # SkipLogs

\* C13: a deploy command given both an image argument and --build is
\* rejected with the 'Build option is not applicable' error before run()
\* issues any call: no secrets or project-directory validation, no fleet
\* lookup, no docker client, no project load, probe, build or release request.
C13_ImageWithBuildRejected ==
    (image # Undefined /\ shouldPerformBuild /\ pc # "run")
        => /\ pc = "runRejected"
           /\ err = ErrBuildWithImage
           /\ runCalls = <<>>
           /\ ~Loaded
           /\ probesIssued = 0
           /\ buildCalls = 0
           /\ metaCalls = 0
           /\ NoReleaseRequest
           /\ logged = <<>>

C13_Witness ==
    /\ image = "img"
    /\ shouldPerformBuild
    /\ pc = "runRejected"
    /\ err = ErrBuildWithImage

\* C14: the build dispatcher is called only after every probe has settled,
\* and the services pruned are those whose probe succeeded, whichever probe
\* settled last.
C14_ProbeJoin ==
    /\ (buildCalls > 0 \/ PruneDone \/ pc = "reconcile") =>
          \A i \in DOMAIN probeOutcome : probeOutcome[i] # "pending"
    /\ (~shouldPerformBuild /\ (PruneDone \/ pc = "reconcile")) =>
          ServiceNamesOf(project) \ DOMAIN compositionToBuild =
              {NameAt(i) : i \in {j \in Idx : probeOutcome[j] = "exists"}}

\* The first probe settled after the second one.
C14_Witness ==
    /\ N = 2
    /\ lastSettled = 1
    /\ probeOutcome = <<"exists", "notFound">>
    /\ buildCalls = 1
    /\ DOMAIN buildArg = {NameAt(2)}

\* C15: a release request is issued only after the three metadata fetches
\* have all resolved; when one of them fails no release request is issued and
\* the deploy fails.
C15_MetadataJoin ==
    /\ (deployLegacyCalls + deployProjectCalls > 0) =>
          \A k \in MetaKeys : metaState[k] = "ok"
    /\ (\E k \in MetaKeys : metaState[k] = "failed") =>
          /\ Failing
          /\ err = ErrMeta
          /\ NoReleaseRequest
          /\ (pc = "failed" => rejectedWith = ErrMeta)

C15_Witness ==
    /\ pc = "failed"
    /\ metaState["url"] = "ok"
    /\ metaState["token"] = "failed"
    /\ metaState["user"] = "pending"
    /\ NoReleaseRequest

\* C16: pruning leaves the project's composition as loaded, and the
\* multicontainer release request gets that full composition with all the
\* reconciled image records.
C16_PruneOnCopy ==
    /\ Loaded =>
          /\ project.composition = CompositionOf(project.descriptors)
          /\ DOMAIN project.composition = ServiceNamesOf(project)
    /\ releaseArg.kind = "multi" =>
          /\ releaseArg.composition = CompositionOf(project.descriptors)
          /\ DOMAIN releaseArg.composition = ServiceNamesOf(project)
          /\ releaseArg.images = images
          /\ Len(releaseArg.images) = N

C16_Witness ==
    /\ releaseArg.kind = "multi"
    /\ N = 2
    /\ DOMAIN compositionToBuild = {NameAt(2)}
    /\ DOMAIN releaseArg.composition = {NameAt(1), NameAt(2)}
    /\ pc = "done"

Count(seq, x) == Cardinality({i \in 1..Len(seq) : seq[i] = x})

\* C17: a terminated run has logged exactly one of 'Deploy succeeded!'
\* (resolved, after a release request returned) and 'Deploy failed' (once,
\* rejecting with the error of the failed stage); no run logs both.
C17_SingleOutcome ==
    /\ ~(Count(logged, MsgSucceeded) > 0 /\ Count(logged, MsgFailed) > 0)
    /\ pc = "done" <=> Count(logged, MsgSucceeded) = 1
    /\ pc = "failed" <=> Count(logged, MsgFailed) = 1
    /\ Count(logged, MsgSucceeded) <= 1 /\ Count(logged, MsgFailed) <= 1
    /\ pc = "done" =>
          /\ rejectedWith = ErrNone
          /\ release.commit \in Commits
          /\ deployLegacyCalls + deployProjectCalls = 1
          /\ releaseArg.kind = "legacy" => lookupCalls = 1
    /\ pc = "failed" =>
          /\ rejectedWith = err
          /\ err \in {ErrLoad, ErrNoMulticontainer, ErrBuild, ErrMeta,
                      ErrRelease, ErrLookup}
    /\ pc # "failed" => rejectedWith = ErrNone

C17_Witness ==
    /\ pc = "failed"
    /\ rejectedWith = ErrRelease
    /\ Count(logged, MsgFailed) = 1
    /\ deployProjectCalls = 1

\* C18: the install action calls done exactly once: without an error on
\* success, with the message rewritten to 'Plugin not found: <name>' for an
\* E404 error of npm load or npm install, and with the error as raised
\* otherwise.
C18_InstallErrorRewrite ==
    /\ doneCalls <= 1
    /\ ipc # "done" => doneCalls = 0 /\ doneArg = NoError
    /\ ipc = "done" =>
          /\ doneCalls = 1
          /\ npmError = NoError =>
                /\ doneArg = NoError
                /\ npmCalls = <<"load", PackageName(pluginName)>>
          /\ (npmError # NoError /\ npmError.code = "E404") =>
                /\ doneArg.message = "Plugin not found: " \o pluginName
                /\ doneArg.code = "E404"
          /\ (npmError # NoError /\ npmError.code # "E404") =>
                doneArg = npmError

C18_Witness ==
    /\ ipc = "done"
    /\ pluginName = "hello"
    /\ npmCalls = <<"load", "resin-plugin-hello">>
    /\ npmError = [code |-> "E404", message |-> "404 Not Found"]
    /\ doneArg = [code |-> "E404", message |-> "Plugin not found: hello"]

====
